---- MODULE Spec2Model ----
(***************************************************************************)
(* Model of lib/sockets.js (node-sctp): class Socket, a Duplex stream that *)
(* adapts an SCTP Endpoint / Association pair to the net.Socket interface. *)
(*                                                                         *)
(* The Socket is one object; the Endpoint and the Associations are         *)
(* collaborators whose calls and notifications are the environment.  Every *)
(* step of the model is one call of a method of the Socket or one run of   *)
(* a handler it registered.  `effects` holds what that call or handler     *)
(* did to the outside, in program order: the calls on collaborators, the   *)
(* events emitted, the completion callbacks invoked, the chunks pushed.    *)
(***************************************************************************)
EXTENDS Integers, Sequences, FiniteSets

(***************************************************************************)
(* Bounds of the model.                                                    *)
(***************************************************************************)
MaxAssoc == 2
MaxConnectCalls == 2
MaxParamCalls == 2

(***************************************************************************)
(* JavaScript values.  Each type has its own record shape, so values of    *)
(* different types are unequal (strict equality, ===).                     *)
(***************************************************************************)
Undef == [t |-> "undefined"]
Null == [t |-> "null"]
Num(n) == [t |-> "number", n |-> n]
Str(s) == [t |-> "string", s |-> s]
Bool(b) == [t |-> "boolean", b |-> b]
Obj(f) == [t |-> "object", props |-> f]
Function == [t |-> "function"]
TheEndpoint == [t |-> "Endpoint"]
Assoc(i, remotePort, remoteAddress) ==
  [t |-> "Association", id |-> i, remotePort |-> remotePort,
   remoteAddress |-> remoteAddress]

typeof(v) == IF v.t \in {"null", "object", "Endpoint", "Association"} THEN "object" ELSE v.t

Truthy(v) == v \notin {Undef, Null, Bool(FALSE), Num(0), Str("")}

\* Property read: options.key (undefined when the key is absent).
Get(o, key) == IF key \in DOMAIN o.props THEN o.props[key] ELSE Undef

\* Number(string) for the strings of the model; 0 stands for NaN, which
\* ~~ maps to 0 as well.
StringToNumber(s) == CASE s = "1" -> 1 [] s = "2" -> 2 [] s = "5" -> 5 [] OTHER -> 0

\* ~~v : ToInt32(ToNumber(v)).  The numbers of the model are integers of
\* the int32 range, which ToInt32 leaves alone.
ToInt32(v) ==
  CASE v.t = "number" -> v.n
    [] v.t = "string" -> StringToNumber(v.s)
    [] OTHER -> 0

(***************************************************************************)
(* Inputs.                                                                 *)
(***************************************************************************)
PortInputs == {Undef, Num(0), Num(1), Num(2), Str("2"), Str("x")}
HostInputs == {Undef, Str("h1")}
LocalPortInputs == {Undef, Num(0), Num(5)}
RemotePorts == {Num(1), Num(2)}
RemoteAddresses == {Str("127.0.0.1"), Str("h1")}
Chunks == {"x", "y"}
Payloads == {Null, Str("m1"), Str("m2")}
Errors == {Undef, Str("boom")}

\* connect options: every port input with the other fields absent, every
\* combination of the other fields with a port, and no port at all.
ConnectObjects ==
  { Obj([port |-> p]) : p \in PortInputs }
    \cup { Obj([port |-> Num(1), host |-> h, localPort |-> lp, listen |-> Bool(l)]) :
             h \in HostInputs, lp \in LocalPortInputs, l \in BOOLEAN }
    \cup { Obj([listen |-> Bool(l)]) : l \in BOOLEAN }

ConnectOptions == ConnectObjects \cup {Undef, Null, Str("opts")}

ParamOptions ==
  { Undef,
    Obj([protocol |-> Num(7)]),
    Obj([protocol |-> Num(9), stream |-> Num(2)]) }

CtorProtocols == {Undef, Num(3)}

(***************************************************************************)
(* State.                                                                  *)
(***************************************************************************)
VARIABLES
  p2p,               \* this.p2p
  port,              \* this.port  (read by the listen handler, set by the caller)
  host,              \* this.host
  _endpoint,         \* this._endpoint
  _association,      \* this._association
  destroyed,         \* this.destroyed
  fields,            \* connecting, the counters and the remote identity
  sctp_sndrcvinfo,   \* this.sctp_sndrcvinfo
  writeBuffer,       \* this.writeBuffer
  connectListeners,  \* listeners of the Socket's 'connect' event
  errorListener,     \* the application listens to the Socket's 'error' event
  epListener,        \* the Socket listens to the Endpoint's 'COMMUNICATION UP'
  assocListeners,    \* Associations the Socket registered its five handlers on
  assocs,            \* number of Associations created so far
  effects,           \* what the last call or handler did to the outside
  result,            \* how the last call or handler ended: returned, or threw
  ctorProtocol,      \* options.protocol given to the constructor
  paramLog,          \* options of the SCTP_DEFAULT_SEND_PARAM calls, in order
  connectCalls,      \* number of connect() calls so far
  assocOptions       \* assocOptions of the connect() call that got past validation

vars == <<p2p, port, host, _endpoint, _association, destroyed, fields,
          sctp_sndrcvinfo, writeBuffer, connectListeners, errorListener,
          epListener, assocListeners, assocs, effects, result,
          ctorProtocol, paramLog, connectCalls, assocOptions>>

\* Everything of the Socket and of its wiring to the collaborators.
socketState == <<p2p, port, host, _endpoint, _association, destroyed, fields,
                 sctp_sndrcvinfo, writeBuffer, connectListeners, errorListener,
                 epListener, assocListeners, assocs>>

Return == [t |-> "return"]
Throw(e) == [t |-> "throw", error |-> e]
TypeError == Str("TypeError")

Call(target, f, arg) == [k |-> "call", on |-> target, f |-> f, arg |-> arg]
Emit(e, arg) == [k |-> "emit", e |-> e, arg |-> arg]
Callback(of, err) == [k |-> "callback", of |-> of, err |-> err]
Push(buffer) == [k |-> "push", buffer |-> buffer]

AllocError(localPort) == [t |-> "Error", message |-> "unable to allocate port ", port |-> localPort]

\* new Socket(options)
Init ==
  /\ p2p = FALSE
  /\ port = Undef
  /\ host = Undef
  /\ _endpoint = Undef
  /\ _association = Undef
  /\ destroyed = FALSE
  /\ fields = Undef
  /\ ctorProtocol \in CtorProtocols
  /\ sctp_sndrcvinfo = Obj([protocol |-> ctorProtocol])
  /\ writeBuffer = <<>>
  /\ connectListeners = 0
  /\ errorListener = FALSE
  /\ epListener = FALSE
  /\ assocListeners = {}
  /\ assocs = 0
  /\ effects = <<>>
  /\ result = Return
  /\ paramLog = <<>>
  /\ connectCalls = 0
  /\ assocOptions = Undef

(***************************************************************************)
(* Socket._construct(endpoint, association): the binding step.             *)
(***************************************************************************)
_construct(endpoint, association) ==
  /\ destroyed' = FALSE
  /\ fields' = [connecting |-> FALSE, bufferSize |-> 0, bytesRead |-> 0,
                bytesWritten |-> 0,
                remotePort |-> association.remotePort,
                remoteAddress |-> association.remoteAddress,
                remoteFamily |-> "IPv4"]
  /\ _endpoint' = endpoint
  /\ _association' = association
  /\ assocListeners' = assocListeners \cup {association.id}

(***************************************************************************)
(* Socket.connect(options, connectListener).  `endpoint` is what           *)
(* Endpoint.INITIALIZE returns in this call: an Endpoint, or null.         *)
(***************************************************************************)
\* assocOptions.remotePort = ~~options.port
remotePortOf(options) == ToInt32(Get(options, "port"))

\* assocOptions.remoteAddress = options.host || '127.0.0.1'
remoteAddressOf(options) ==
  IF Truthy(Get(options, "host")) THEN Get(options, "host") ELSE Str("127.0.0.1")

\* initOptions.localPort, left undefined unless options.localPort && ~~options.localPort
localPortOf(options) ==
  IF Truthy(Get(options, "localPort")) /\ ToInt32(Get(options, "localPort")) # 0
  THEN Num(ToInt32(Get(options, "localPort")))
  ELSE Undef

\* The part of connect after the validation of the options.
connectValidated(options, connectListener, endpoint) ==
  LET localPort == localPortOf(options)
      options_ == [streams |-> 1, remotePort |-> Num(remotePortOf(options)),
                   remoteAddress |-> remoteAddressOf(options)]
      initialized == <<Call(Str("Endpoint"), "INITIALIZE", localPort)>>
      failed == Append(initialized, Emit("error", AllocError(localPort)))
      listening == typeof(connectListener) = "function"
  IN  /\ assocOptions' = options_
      /\ IF endpoint = Null /\ ~errorListener
         THEN \* emit('error') without a listener throws the error itself
              /\ effects' = failed
              /\ result' = Throw(AllocError(localPort))
              /\ UNCHANGED <<_endpoint, _association, destroyed, fields,
                             connectListeners, epListener, assocListeners, assocs>>
         ELSE IF endpoint = Null
         THEN \* endpoint.on / endpoint.ASSOCIATE on null
              /\ effects' = failed
              /\ connectListeners' = connectListeners + (IF listening THEN 1 ELSE 0)
              /\ result' = Throw(TypeError)
              /\ UNCHANGED <<_endpoint, _association, destroyed, fields,
                             epListener, assocListeners, assocs>>
         ELSE IF Truthy(Get(options, "listen"))
         THEN /\ effects' = initialized
              /\ connectListeners' = connectListeners + (IF listening THEN 1 ELSE 0)
              /\ epListener' = TRUE
              /\ result' = Return
              /\ UNCHANGED <<_endpoint, _association, destroyed, fields,
                             assocListeners, assocs>>
         ELSE /\ effects' = Append(initialized, Call(endpoint, "ASSOCIATE", options_))
              /\ connectListeners' = connectListeners + (IF listening THEN 1 ELSE 0)
              /\ assocs' = assocs + 1
              /\ _construct(endpoint, Assoc(assocs + 1, options_.remotePort,
                                            options_.remoteAddress))
              /\ result' = Return
              /\ UNCHANGED epListener

\* Mutant of alreadyConnected: the one-shot guard is missing.
alreadyConnected_never == FALSE

\* if (this.p2p) return
alreadyConnected == p2p

\* Mutant of portMissing: only an absent port is refused, not one that
\* coerces to 0.
portMissing_undefinedOnly(options) == Get(options, "port") = Undef

\* if (!assocOptions.remotePort) throw
portMissing(options) == remotePortOf(options) = 0

connect(options, connectListener, endpoint) ==
  /\ connectCalls < MaxConnectCalls
  /\ connectCalls' = connectCalls + 1
  /\ UNCHANGED <<port, host, sctp_sndrcvinfo, writeBuffer, errorListener,
                 ctorProtocol, paramLog>>
  /\ IF alreadyConnected
     THEN /\ result' = Return
          /\ effects' = <<>>
          /\ UNCHANGED <<p2p, _endpoint, _association, destroyed, fields,
                         connectListeners, epListener, assocListeners, assocs,
                         assocOptions>>
     ELSE /\ p2p' = TRUE
          /\ IF typeof(options) # "object"
             THEN /\ result' = Throw(Str("options required"))
                  /\ UNCHANGED <<_endpoint, _association, destroyed, fields,
                                 connectListeners, epListener, assocListeners,
                                 assocs, assocOptions>>
                  /\ effects' = <<>>
             ELSE IF options = Null
             THEN \* options.port on null
                  /\ result' = Throw(TypeError)
                  /\ UNCHANGED <<_endpoint, _association, destroyed, fields,
                                 connectListeners, epListener, assocListeners,
                                 assocs, assocOptions>>
                  /\ effects' = <<>>
             ELSE IF portMissing(options)
             THEN /\ result' = Throw(Str("port is required"))
                  /\ UNCHANGED <<_endpoint, _association, destroyed, fields,
                                 connectListeners, epListener, assocListeners,
                                 assocs, assocOptions>>
                  /\ effects' = <<>>
             ELSE connectValidated(options, connectListener, endpoint)

(***************************************************************************)
(* The handler connect registers on the Endpoint in listen mode:           *)
(* endpoint.on('COMMUNICATION UP', (association) => ...).  The Endpoint    *)
(* announces a new inbound Association with the given remote port and      *)
(* address; abortThrows says whether its ABORT fails.                      *)
(***************************************************************************)
\* Mutant of peerMatches: the remote port is not compared.
peerMatches_addressOnly(remotePort, remoteAddress) ==
  remoteAddress = host

\* association.remotePort === this.port && association.remoteAddress === this.host
peerMatches(remotePort, remoteAddress) ==
  remotePort = port /\ remoteAddress = host

EndpointCommunicationUp(remotePort, remoteAddress, abortThrows) ==
  LET association == Assoc(assocs + 1, remotePort, remoteAddress)
  IN  /\ epListener
      /\ assocs < MaxAssoc
      /\ assocs' = assocs + 1
      /\ IF peerMatches(remotePort, remoteAddress)
         THEN /\ _construct(TheEndpoint, association)
              /\ effects' = <<Emit("connect", Undef)>>
              /\ result' = Return
         ELSE /\ effects' = <<Call(association, "ABORT", Undef)>>
              /\ result' = IF abortThrows THEN Throw(Str("abort failed")) ELSE Return
              /\ UNCHANGED <<_endpoint, _association, destroyed, fields, assocListeners>>
      /\ UNCHANGED <<p2p, port, host, sctp_sndrcvinfo, writeBuffer, connectListeners,
                     errorListener, epListener, ctorProtocol, paramLog, connectCalls,
                     assocOptions>>

(***************************************************************************)
(* The five handlers _construct registers on an Association.  Each closes  *)
(* over the Endpoint and the Association _construct was called with.       *)
(***************************************************************************)
handlerFrame ==
  UNCHANGED <<p2p, port, host, _endpoint, _association, destroyed, fields,
              sctp_sndrcvinfo, writeBuffer, connectListeners, errorListener,
              epListener, assocListeners, assocs, ctorProtocol, paramLog,
              connectCalls, assocOptions>>

\* Mutant of CommunicationUp: 'connect' is emitted twice.
CommunicationUp_twice(id) ==
  /\ id \in assocListeners
  /\ effects' = <<Emit("connect", Undef), Emit("connect", Undef)>>
  /\ result' = Return
  /\ handlerFrame

CommunicationUp(id) ==
  /\ id \in assocListeners
  /\ effects' = <<Emit("connect", Undef)>>
  /\ result' = Return
  /\ handlerFrame

\* Mutant of DataArrive: the buffer is pushed without the test.
DataArrive_pushAlways(id, buffer) ==
  /\ id \in assocListeners
  /\ effects' = <<Push(buffer)>>
  /\ result' = Return
  /\ handlerFrame

\* buffer is what association.RECEIVE(stream_id) returns
DataArrive(id, buffer) ==
  /\ id \in assocListeners
  /\ effects' = IF Truthy(buffer) THEN <<Push(buffer)>> ELSE <<>>
  /\ result' = Return
  /\ handlerFrame

\* Mutant of ShutdownComplete: 'end' is emitted before the Endpoint is
\* destroyed.
ShutdownComplete_emitFirst(id) ==
  /\ id \in assocListeners
  /\ effects' = <<Emit("end", Undef)>>
                  \o (IF p2p THEN <<Call(TheEndpoint, "DESTROY", Undef)>> ELSE <<>>)
  /\ result' = Return
  /\ handlerFrame

ShutdownComplete(id) ==
  /\ id \in assocListeners
  /\ effects' = (IF p2p THEN <<Call(TheEndpoint, "DESTROY", Undef)>> ELSE <<>>)
                  \o <<Emit("end", Undef)>>
  /\ result' = Return
  /\ handlerFrame

CommunicationLost(id) ==
  /\ id \in assocListeners
  /\ effects' = (IF p2p THEN <<Call(TheEndpoint, "DESTROY", Undef)>> ELSE <<>>)
                  \o <<Emit("close", Undef)>>
  /\ result' = Return
  /\ handlerFrame

\* Mutant of CommunicationError: the error also tears the Endpoint down.
CommunicationError_destroys(id) ==
  /\ id \in assocListeners
  /\ effects' = <<Call(TheEndpoint, "DESTROY", Undef), Emit("error", Undef)>>
  /\ result' = IF errorListener THEN Return ELSE Throw(Str("Unhandled error"))
  /\ handlerFrame

CommunicationError(id) ==
  /\ id \in assocListeners
  /\ effects' = <<Emit("error", Undef)>>
  \* emit('error') without a listener throws
  /\ result' = IF errorListener THEN Return ELSE Throw(Str("Unhandled error"))
  /\ handlerFrame

(***************************************************************************)
(* Stream hooks and configuration calls.                                   *)
(***************************************************************************)
NoAssociation == [t |-> "Error", message |-> "no association established"]

\* Mutant of _write: without Association the chunk is dropped silently.
_write_silentDrop(chunk) ==
  /\ effects' = IF Truthy(_association)
                THEN <<Call(_association, "SEND",
                            [chunk |-> chunk, info |-> sctp_sndrcvinfo,
                             callback |-> "_write"])>>
                ELSE <<>>
  /\ result' = Return
  /\ handlerFrame

_write(chunk) ==
  /\ effects' = IF Truthy(_association)
                THEN <<Call(_association, "SEND",
                            [chunk |-> chunk, info |-> sctp_sndrcvinfo,
                             callback |-> "_write"])>>
                ELSE <<Callback("_write", NoAssociation)>>
  /\ result' = Return
  /\ handlerFrame

\* Mutant of _final: 'end' is emitted right after SHUTDOWN is requested.
_final_emitsEnd ==
  /\ effects' = IF Truthy(_association)
                THEN <<Call(_association, "SHUTDOWN", [callback |-> "_final"]),
                       Emit("end", Undef)>>
                ELSE <<>>
  /\ result' = Return
  /\ handlerFrame

_final ==
  /\ effects' = IF Truthy(_association)
                THEN <<Call(_association, "SHUTDOWN", [callback |-> "_final"])>>
                ELSE <<>>
  /\ result' = Return
  /\ handlerFrame

\* Duplex.destroy(err) sets the destroyed flag and calls _destroy(err, callback).
_destroy(err, abortThrows) ==
  /\ destroyed' = TRUE
  /\ IF ~Truthy(_association)
     THEN \* this._association.ABORT on undefined
          /\ result' = Throw(TypeError)
          /\ effects' = <<>>
     ELSE IF abortThrows
     THEN /\ effects' = <<Call(_association, "ABORT", err)>>
          /\ result' = Throw(Str("abort failed"))
     ELSE /\ effects' = <<Call(_association, "ABORT", err),
                          Callback("_destroy", Undef)>>
          /\ result' = Return
  /\ UNCHANGED <<p2p, port, host, _endpoint, _association, fields,
                 sctp_sndrcvinfo, writeBuffer, connectListeners, errorListener,
                 epListener, assocListeners, assocs, ctorProtocol, paramLog,
                 connectCalls, assocOptions>>

\* Mutant of ObjectAssign: the source replaces the target instead of being
\* merged into it.
ObjectAssign_replace(target, source) ==
  IF source.t # "object" THEN target ELSE source

\* Object.assign(target, source)
ObjectAssign(target, source) ==
  IF source.t # "object"
  THEN target
  ELSE Obj([key \in DOMAIN target.props \cup DOMAIN source.props |->
              IF key \in DOMAIN source.props THEN source.props[key]
              ELSE target.props[key]])

SCTP_DEFAULT_SEND_PARAM(options) ==
  /\ Len(paramLog) < MaxParamCalls
  /\ sctp_sndrcvinfo' = ObjectAssign(sctp_sndrcvinfo, options)
  /\ paramLog' = Append(paramLog, options)
  /\ result' = Return
  /\ UNCHANGED <<p2p, port, host, _endpoint, _association, destroyed, fields,
                 writeBuffer, connectListeners, errorListener, epListener,
                 assocListeners, assocs, ctorProtocol, connectCalls,
                 assocOptions>>
  /\ effects' = <<>>

(***************************************************************************)
(* The application: it names the peer a listening Socket expects by        *)
(* assigning socket.host and socket.port, and may listen to 'error'.       *)
(***************************************************************************)
setPeer(h, p) ==
  /\ <<host, port>> # <<h, p>>
  /\ host' = h
  /\ port' = p
  /\ result' = Return
  /\ UNCHANGED <<p2p, _endpoint, _association, destroyed, fields,
                 sctp_sndrcvinfo, writeBuffer, connectListeners, errorListener,
                 epListener, assocListeners, assocs, ctorProtocol,
                 paramLog, connectCalls, assocOptions>>
  /\ effects' = <<>>

onError ==
  /\ ~errorListener
  /\ errorListener' = TRUE
  /\ result' = Return
  /\ UNCHANGED <<p2p, port, host, _endpoint, _association, destroyed, fields,
                 sctp_sndrcvinfo, writeBuffer, connectListeners, epListener,
                 assocListeners, assocs, ctorProtocol, paramLog,
                 connectCalls, assocOptions>>
  /\ effects' = <<>>

AssocIds == 1..MaxAssoc

Next ==
  \/ \E options \in ConnectOptions, connectListener \in {Undef, Function},
        endpoint \in {Null, TheEndpoint} :
       connect(options, connectListener, endpoint)
  \/ \E remotePort \in RemotePorts, remoteAddress \in RemoteAddresses,
        abortThrows \in BOOLEAN :
       EndpointCommunicationUp(remotePort, remoteAddress, abortThrows)
  \/ \E h \in RemoteAddresses, p \in RemotePorts : setPeer(h, p)
  \/ \E chunk \in Chunks : _write(Str(chunk))
  \/ \E id \in AssocIds : CommunicationUp(id)
  \/ \E id \in AssocIds, buffer \in Payloads : DataArrive(id, buffer)
  \/ \E id \in AssocIds : ShutdownComplete(id)
  \/ \E id \in AssocIds : CommunicationLost(id)
  \/ \E id \in AssocIds : CommunicationError(id)
  \/ _final
  \/ \E err \in Errors, abortThrows \in BOOLEAN : _destroy(err, abortThrows)
  \/ onError

\* new Socket()
InitDefault == Init /\ ctorProtocol = Undef

\* The lifecycle of a Socket made without options, with every operation
\* but the configuration of the send parameters.
Spec == InitDefault /\ [][Next]_vars

\* connect options of the data path: an active and a passive connect.
SendConnectOptions ==
  { Obj([port |-> Num(1)]),
    Obj([port |-> Num(1), listen |-> Bool(TRUE)]) }

NextSend ==
  \/ \E options \in SendConnectOptions : connect(options, Undef, TheEndpoint)
  \/ \E remotePort \in RemotePorts, remoteAddress \in RemoteAddresses,
        abortThrows \in BOOLEAN :
       EndpointCommunicationUp(remotePort, remoteAddress, abortThrows)
  \/ \E h \in RemoteAddresses, p \in RemotePorts : setPeer(h, p)
  \/ \E chunk \in Chunks : _write(Str(chunk))
  \/ \E options \in ParamOptions : SCTP_DEFAULT_SEND_PARAM(options)

\* The data path: a Socket made with or without a protocol, connected or
\* listening, its send parameters and its writes.
SpecSend == Init /\ [][NextSend]_vars

NextNotify ==
  \/ \E options \in SendConnectOptions : connect(options, Undef, TheEndpoint)
  \/ \E remotePort \in RemotePorts, remoteAddress \in RemoteAddresses,
        abortThrows \in BOOLEAN :
       EndpointCommunicationUp(remotePort, remoteAddress, abortThrows)
  \/ \E h \in RemoteAddresses, p \in RemotePorts : setPeer(h, p)
  \/ \E id \in AssocIds : CommunicationUp(id)
  \/ \E id \in AssocIds, buffer \in Payloads : DataArrive(id, buffer)
  \/ \E id \in AssocIds : ShutdownComplete(id)
  \/ \E id \in AssocIds : CommunicationLost(id)
  \/ \E id \in AssocIds : CommunicationError(id)
  \/ _final
  \/ \E err \in Errors, abortThrows \in BOOLEAN : _destroy(err, abortThrows)

\* The notifications of the Associations of a connected or listening Socket,
\* with the end and the destruction of the stream.
SpecNotify == InitDefault /\ [][NextNotify]_vars

(***************************************************************************)
(* Properties.                                                             *)
(***************************************************************************)
Range(seq) == { seq[i] : i \in DOMAIN seq }

ConnectListeners == {Undef, Function}
InitializeResults == {Null, TheEndpoint}

IsCall(e, f) == e.k = "call" /\ e.f = f

\* The step is a call of connect (the only operation that counts its calls).
IsConnectCall == connectCalls' = connectCalls + 1

\* The step is a handler or a stream hook: these make no connect() call,
\* create no Association and leave the Socket's own state alone.
IsHandlerStep == UNCHANGED <<connectCalls, assocs, p2p>>

\* C1: once the Socket is bound to an Association, the Association it is
\* bound to never changes.
C1_NeverRebound ==
  [][Truthy(_association) => _association' = _association]_vars

\* C2: an inbound association that arrives on the listening Endpoint while
\* the Socket is already bound is aborted, and is neither bound nor wired,
\* whatever its remote port and address.
C2_InboundWhileBoundAborted ==
  [][\A remotePort \in RemotePorts, remoteAddress \in RemoteAddresses,
        abortThrows \in BOOLEAN :
       (EndpointCommunicationUp(remotePort, remoteAddress, abortThrows)
          /\ Truthy(_association))
       => /\ effects' = <<Call(Assoc(assocs + 1, remotePort, remoteAddress),
                               "ABORT", Undef)>>
          /\ UNCHANGED <<_association, assocListeners>>]_vars

\* C3: on a listening Socket that expects host and port and is not bound
\* yet, an inbound association with that remote address and port is bound
\* and 'connect' is emitted; one with a different remote port is aborted,
\* and the Socket stays unbound, its handlers, flags and listening Endpoint
\* as they were, with nothing emitted.
C3_PassiveFilter ==
  [][\A remotePort \in RemotePorts, remoteAddress \in RemoteAddresses,
        abortThrows \in BOOLEAN :
       (EndpointCommunicationUp(remotePort, remoteAddress, abortThrows)
          /\ ~Truthy(_association))
       => LET association == Assoc(assocs + 1, remotePort, remoteAddress)
          IN  /\ (remoteAddress = host /\ remotePort = port)
                 => /\ _association' = association
                    /\ _endpoint' = TheEndpoint
                    /\ effects' = <<Emit("connect", Undef)>>
              /\ remotePort # port
                 => /\ effects' = <<Call(association, "ABORT", Undef)>>
                    /\ UNCHANGED <<_endpoint, _association, destroyed, fields,
                                   assocListeners, epListener, p2p>>]_vars

\* A first inbound association was turned away and the second one, from
\* the expected peer, is bound.
C3_Witness ==
  /\ assocs = 2
  /\ Truthy(_association)
  /\ _association.id = 2
  /\ assocListeners = {2}
  /\ _association.remotePort = port
  /\ _association.remoteAddress = host
  /\ effects = <<Emit("connect", Undef)>>

\* C4: _destroy on a bound Socket returns and invokes its callback exactly
\* once, with no error, also when ABORT throws.
C4_DestroyCompletes ==
  [][\A err \in Errors, abortThrows \in BOOLEAN :
       (_destroy(err, abortThrows) /\ Truthy(_association))
       => /\ result' = Return
          /\ Cardinality({ i \in DOMAIN effects' :
                             effects'[i] = Callback("_destroy", Undef) }) = 1]_vars

\* C5: when INITIALIZE returns no Endpoint, connect emits 'error' with a
\* message naming the requested local port and returns normally.
C5_AllocFailureNotThrown ==
  [][(IsConnectCall /\ ~p2p)
       => \A options \in ConnectObjects, connectListener \in ConnectListeners :
            (connect(options, connectListener, Null) /\ ~portMissing(options))
            => /\ Emit("error", AllocError(localPortOf(options))) \in Range(effects')
               /\ result' = Return]_vars

\* C6: a connect() call on a Socket whose connect() was called before does
\* nothing: no call on a collaborator, no event, no registration, no throw,
\* no change of the Socket.
C6_SecondConnectNoOp ==
  [][(IsConnectCall /\ p2p)
       => /\ effects' = <<>>
          /\ result' = Return
          /\ UNCHANGED socketState]_vars

\* A second connect() has returned on a Socket the first one bound.
C6_Witness ==
  /\ connectCalls = 2
  /\ Truthy(_association)
  /\ effects = <<>>
  /\ result = Return

Before(seq, a, b) ==
  \E i, j \in DOMAIN seq : i < j /\ seq[i] = a /\ seq[j] = b

\* C7: the SHUTDOWN COMPLETE handler emits 'end' and not 'close', the
\* COMMUNICATION LOST handler emits 'close' and not 'end', and in p2p mode
\* both call the Endpoint's DESTROY before they emit.
C7_EndVersusClose ==
  [][\A id \in AssocIds :
       /\ ShutdownComplete(id)
          => /\ Emit("end", Undef) \in Range(effects')
             /\ Emit("close", Undef) \notin Range(effects')
             /\ p2p => Before(effects', Call(TheEndpoint, "DESTROY", Undef),
                              Emit("end", Undef))
       /\ CommunicationLost(id)
          => /\ Emit("close", Undef) \in Range(effects')
             /\ Emit("end", Undef) \notin Range(effects')
             /\ p2p => Before(effects', Call(TheEndpoint, "DESTROY", Undef),
                              Emit("close", Undef))]_vars

\* The COMMUNICATION LOST handler has run on a p2p Socket.
C7_Witness ==
  /\ p2p
  /\ assocListeners # {}
  /\ effects = <<Call(TheEndpoint, "DESTROY", Undef), Emit("close", Undef)>>

\* C8: a write on a Socket without Association invokes the write's
\* callback with the 'no association established' error and does nothing
\* else (no SEND, nothing buffered); and a SEND is only ever issued by a
\* write on a bound Socket, for the chunk of that write, so no earlier
\* chunk is sent once the Socket gets bound.
C8_UnboundWriteFails ==
  [][/\ \A chunk \in Chunks :
          (_write(Str(chunk)) /\ ~Truthy(_association))
          => /\ effects' = <<Callback("_write", NoAssociation)>>
             /\ writeBuffer' = <<>>
             /\ result' = Return
     /\ \A i \in DOMAIN effects' :
          IsCall(effects'[i], "SEND")
          => /\ Truthy(_association)
             /\ effects'[i].on = _association
             /\ _write(effects'[i].arg.chunk)]_vars

\* A write has failed on a listening Socket that still waits for its peer.
C8_Witness ==
  /\ epListener
  /\ ~Truthy(_association)
  /\ effects = <<Callback("_write", NoAssociation)>>

\* The value of key in the defaults: the one of the last call in the log
\* that set the key, the construction-time one when no call did.
Setters(key, log) ==
  { i \in DOMAIN log : log[i].t = "object" /\ key \in DOMAIN log[i].props }

Max(S) == CHOOSE x \in S : \A y \in S : y <= x

OverlaidKeys(log) ==
  {"protocol"} \cup UNION { DOMAIN log[i].props :
                             i \in { j \in DOMAIN log : log[j].t = "object" } }

Overlaid(protocol, log) ==
  Obj([key \in OverlaidKeys(log) |->
         IF Setters(key, log) # {} THEN log[Max(Setters(key, log))].props[key]
         ELSE protocol])

\* C9: a write of a chunk on a bound Socket makes exactly one call, SEND
\* on the bound Association, with the chunk and the construction-time
\* defaults overlaid in call order by the SCTP_DEFAULT_SEND_PARAM calls
\* made so far.
C9_SendCarriesDefaults ==
  [][\A chunk \in Chunks :
       (_write(Str(chunk)) /\ Truthy(_association))
       => effects' = <<Call(_association, "SEND",
                            [chunk |-> Str(chunk),
                             info |-> Overlaid(ctorProtocol, paramLog),
                             callback |-> "_write"])>>]_vars

\* {protocol: 7} was set after {protocol: 9, stream: 2}; the send carries
\* protocol 7 and the stream set before.
C9_Witness ==
  /\ paramLog = <<Obj([protocol |-> Num(9), stream |-> Num(2)]),
                  Obj([protocol |-> Num(7)])>>
  /\ Len(effects) = 1
  /\ IsCall(effects[1], "SEND")
  /\ effects[1].arg.info = Obj([protocol |-> Num(7), stream |-> Num(2)])

\* connect options that are an object without a port, or with a port that
\* ~~ turns into 0.
PortlessOptions == { o \in ConnectObjects : ToInt32(Get(o, "port")) = 0 }

NoAllocation ==
  /\ effects' = <<>>
  /\ UNCHANGED <<_endpoint, _association, epListener, assocListeners,
                 connectListeners, assocs>>

\* Some connect() call with options that lack a port makes this step.
IsPortlessConnect ==
  \E options \in PortlessOptions, connectListener \in ConnectListeners,
     endpoint \in InitializeResults :
    connect(options, connectListener, endpoint)

\* C10 as stated: every connect() call with options that lack a port
\* throws 'port is required' and reaches no collaborator.
C10_PortlessConnectThrows ==
  [][IsConnectCall
       => \/ /\ result' = Throw(Str("port is required"))
             /\ NoAllocation
          \/ ~IsPortlessConnect]_vars

\* C10 amended: the first connect() call on a Socket throws 'port is
\* required' when the options lack a port, and no connect() call with such
\* options reaches a collaborator or registers a listener.
C10_FirstPortlessConnectThrows ==
  [][IsConnectCall
       => \/ /\ ~p2p => result' = Throw(Str("port is required"))
             /\ NoAllocation
          \/ ~IsPortlessConnect]_vars

\* The first connect() has thrown 'port is required'.
C10_Witness ==
  /\ connectCalls = 1
  /\ result = Throw(Str("port is required"))
  /\ effects = <<>>
  /\ ~Truthy(_endpoint)

\* C11: a DATA ARRIVE notification whose RECEIVE yields nothing pushes
\* nothing and raises nothing; one whose RECEIVE yields a payload pushes
\* that payload as one chunk; and nothing else ever pushes, so the chunks
\* pushed are the payloads received, in the order of the notifications.
C11_PushesWhatArrives ==
  [][/\ \A id \in AssocIds, buffer \in Payloads :
          (IsHandlerStep /\ DataArrive(id, buffer))
          => /\ result' = Return
             /\ effects' = IF buffer = Null THEN <<>> ELSE <<Push(buffer)>>
     /\ \A i \in DOMAIN effects' :
          effects'[i].k = "push"
          => \E id \in AssocIds : DataArrive(id, effects'[i].buffer)]_vars

\* A payload has been pushed.
C11_Witness ==
  /\ assocListeners # {}
  /\ effects = <<Push(Str("m2"))>>
  /\ result = Return

\* The errors connect throws for options that fail validation.
ValidationErrors == {Str("options required"), Str("port is required")}

\* C12: a connect() call that fails validation leaves the Socket as it
\* was.
C12_FailedValidationNoSideEffect ==
  [][(IsConnectCall /\ result' \in { Throw(e) : e \in ValidationErrors })
       => UNCHANGED socketState]_vars

\* C13: _destroy on a Socket without Association returns and invokes its
\* callback with no error.
C13_UnboundDestroyCompletes ==
  [][\A err \in Errors, abortThrows \in BOOLEAN :
       (_destroy(err, abortThrows) /\ ~Truthy(_association))
       => /\ result' = Return
          /\ Callback("_destroy", Undef) \in Range(effects')]_vars

\* C14: after SHUTDOWN COMPLETE or COMMUNICATION LOST of the bound
\* Association the Socket holds no Association any more.
C14_TerminalEventUnbinds ==
  [][\A id \in AssocIds :
       ((ShutdownComplete(id) \/ CommunicationLost(id))
          /\ Truthy(_association) /\ _association.id = id)
       => ~Truthy(_association')]_vars

\* C15: on a listening Socket whose host and port the application never
\* assigned, an inbound association with the remote port and address given
\* to connect is bound and 'connect' is emitted.
C15_ConnectOptionsNameThePeer ==
  [][\A remotePort \in RemotePorts, remoteAddress \in RemoteAddresses,
        abortThrows \in BOOLEAN :
       (EndpointCommunicationUp(remotePort, remoteAddress, abortThrows)
          /\ port = Undef /\ host = Undef
          /\ remotePort = assocOptions.remotePort
          /\ remoteAddress = assocOptions.remoteAddress)
       => /\ _association' = Assoc(assocs + 1, remotePort, remoteAddress)
          /\ effects' = <<Emit("connect", Undef)>>]_vars

\* C16: a first connect() that returns in active mode has called ASSOCIATE
\* and holds the Endpoint and the Association it got, without emitting
\* 'connect'; on a Socket that does not listen 'connect' is only emitted by
\* the COMMUNICATION UP handler of an Association, once per notification.
C16_ActiveConnectBindsAtOnce ==
  [][/\ (IsConnectCall /\ ~p2p /\ result' = Return /\ ~epListener')
          => /\ Len(effects') = 2
             /\ IsCall(effects'[2], "ASSOCIATE")
             /\ effects'[2].arg = assocOptions'
             /\ _endpoint' = TheEndpoint
             /\ Truthy(_association')
             /\ _association'.remotePort = assocOptions'.remotePort
             /\ _association'.remoteAddress = assocOptions'.remoteAddress
     /\ \A id \in AssocIds :
          CommunicationUp(id) => effects' = <<Emit("connect", Undef)>>
     /\ (~epListener /\ Emit("connect", Undef) \in Range(effects'))
          => \E id \in AssocIds : CommunicationUp(id)]_vars

\* COMMUNICATION UP has arrived on a Socket connected in active mode.
C16_Witness ==
  /\ ~epListener
  /\ Truthy(_association)
  /\ _endpoint = TheEndpoint
  /\ effects = <<Emit("connect", Undef)>>

\* C17: _final on a bound Socket makes one call, SHUTDOWN on the bound
\* Association with the callback, and nothing else; 'end' is only emitted
\* by the SHUTDOWN COMPLETE handler.
C17_FinalRequestsShutdown ==
  [][/\ (IsHandlerStep /\ _final /\ Truthy(_association))
          => effects' = <<Call(_association, "SHUTDOWN", [callback |-> "_final"])>>
     /\ Emit("end", Undef) \in Range(effects')
          => \E id \in AssocIds : ShutdownComplete(id)]_vars

\* SHUTDOWN has been requested on the bound Association.
C17_Witness ==
  /\ Truthy(_association)
  /\ effects = <<Call(_association, "SHUTDOWN", [callback |-> "_final"])>>

\* C18: the COMMUNICATION ERROR handler emits one 'error' and does nothing
\* else: no call on a collaborator, no other event, no change of the
\* Socket.
C18_ErrorOnly ==
  [][\A id \in AssocIds :
       (IsHandlerStep /\ CommunicationError(id))
       => /\ effects' = <<Emit("error", Undef)>>
          /\ UNCHANGED socketState]_vars

\* A COMMUNICATION ERROR has been passed on by a bound Socket.
C18_Witness ==
  /\ Truthy(_association)
  /\ assocListeners # {}
  /\ effects = <<Emit("error", Undef)>>

\* C19: _final on a Socket without Association invokes its callback.
C19_UnboundFinalCompletes ==
  [][(_final /\ ~Truthy(_association))
       => Callback("_final", Undef) \in Range(effects')]_vars

\* C20: once destroyed, the Socket stays destroyed and its counters and
\* identity fields stay as they are.
C20_DestroyedIsTerminal ==
  [][destroyed => (destroyed' /\ fields' = fields)]_vars

====
